---------------------------- MODULE Spec2Model ----------------------------
(***************************************************************************)
(* Model of the x/wasm message handlers of bdjuno (package wasm,           *)
(* handle_msg) and of the record constructors of package types.            *)
(*                                                                         *)
(* Go strings are sequences of one-character strings, byte slices are      *)
(* sequences of integers in 0..255.  Event types and attribute keys are    *)
(* only ever compared for equality and are kept as TLA+ strings.           *)
(* 64-bit integers exceed the range of TLC's integers: a parsed code id    *)
(* is kept as a sign and a sequence of decimal digits.                     *)
(***************************************************************************)
EXTENDS Integers, Sequences, FiniteSets, TLC

VARIABLES
    index,    \* HandleMsg argument: position of the message in the tx
    msg,      \* HandleMsg argument: the sdk.Msg
    tx,       \* HandleMsg argument: the juno.Tx (Logs, Height, Timestamp)
    pc,       \* "ready" before HandleMsg runs, "done" after it returned
    result,   \* the error value HandleMsg returned (Nil for nil)
    calls     \* lookups and collaborator calls HandleMsg made, in order

vars == <<index, msg, tx, pc, result, calls>>

-----------------------------------------------------------------------------
(* Bounds of the model *)

\* events in the log of the handled message
MaxEvents == 2
\* attributes in the log of the handled message, over all its events
MaxAttrs == 3
\* characters of a generated result-data attribute (SpecBase64)
MaxLen == 4

-----------------------------------------------------------------------------
(* wasmd constants used by the handlers *)

EventTypeStoreCode == "store_code"
EventTypeInstantiate == "instantiate"
EventTypeExecute == "execute"
EventTypeMigrate == "migrate"
AttributeKeyContractAddr == "_contract_address"
AttributeKeyCodeID == "code_id"
AttributeKeyResultDataHex == "result"

-----------------------------------------------------------------------------
(* Sequence helpers *)

\* all sequences over S of length 0..n
SeqsUpTo(S, n) == UNION {[1..k -> S] : k \in 0..n}

\* position of the first TRUE of a sequence of booleans, 0 when there is none
FirstIndex(hits) ==
    IF \E k \in 1..Len(hits) : hits[k]
    THEN CHOOSE k \in 1..Len(hits) : hits[k] /\ \A j \in 1..(k - 1) : ~hits[j]
    ELSE 0

-----------------------------------------------------------------------------
(* Errors.  fmt.Errorf("error while <stage>: %s", err) is kept as the      *)
(* stage text and the wrapped cause.                                       *)

Nil == [stage |-> "nil", cause |-> "nil"]
Errorf(stage, cause) == [stage |-> stage, cause |-> cause]

-----------------------------------------------------------------------------
(* juno.Tx lookups *)

\* tx.FindEventByType(index, eventType): first event of that type in
\* tx.Logs[index].Events
FindEventByType(t, i, eventType) ==
    LET events == t.Logs[i + 1].Events
        k == FirstIndex([j \in 1..Len(events) |-> events[j].Type = eventType])
    IN IF k = 0
       THEN [ok |-> FALSE, event |-> [Type |-> eventType, Attributes |-> <<>>],
             err |-> "no event found"]
       ELSE [ok |-> TRUE, event |-> events[k], err |-> "nil"]

\* tx.FindAttributeByKey(event, attrKey): value of the first attribute with
\* that key
FindAttributeByKey(event, attrKey) ==
    LET k == FirstIndex([j \in 1..Len(event.Attributes) |->
                            event.Attributes[j].Key = attrKey])
    IN IF k = 0
       THEN [ok |-> FALSE, value |-> <<>>, err |-> "no attribute found"]
       ELSE [ok |-> TRUE, value |-> event.Attributes[k].Value, err |-> "nil"]

-----------------------------------------------------------------------------
(* strconv.ParseInt(s, 10, 64) *)

Digits == <<"0", "1", "2", "3", "4", "5", "6", "7", "8", "9">>
IsDigit(c) == \E d \in 1..Len(Digits) : Digits[d] = c
DigitVal(c) == (CHOOSE d \in 1..Len(Digits) : Digits[d] = c) - 1

RECURSIVE StripZeros(_)
\* a magnitude without leading zeros; zero is <<0>>
StripZeros(m) ==
    IF Len(m) > 1 /\ Head(m) = 0 THEN StripZeros(Tail(m)) ELSE m

\* a < b for magnitudes without leading zeros
MagLess(a, b) ==
    \/ Len(a) < Len(b)
    \/ /\ Len(a) = Len(b)
       /\ \E i \in 1..Len(a) :
            /\ a[i] < b[i]
            /\ \A j \in 1..(i-1) : a[j] = b[j]

\* 1<<63, the cutoff of a signed 64-bit integer
Cutoff63 == <<9,2,2,3,3,7,2,0,3,6,8,5,4,7,7,5,8,0,8>>
\* 1<<64
Pow64 == <<1,8,4,4,6,7,4,4,0,7,3,7,0,9,5,5,1,6,1,6>>

ParseInt(s) ==
    LET signed == s # <<>> /\ Head(s) \in {"+", "-"}
        neg == s # <<>> /\ Head(s) = "-"
        body == IF signed THEN Tail(s) ELSE s
        syntaxOk == body # <<>> /\ \A i \in 1..Len(body) : IsDigit(body[i])
        mag == StripZeros([i \in 1..Len(body) |-> DigitVal(body[i])])
        inRange == IF neg THEN ~MagLess(Cutoff63, mag) ELSE MagLess(mag, Cutoff63)
    IN IF ~syntaxOk THEN [ok |-> FALSE, neg |-> FALSE, mag |-> <<0>>, err |-> "invalid syntax"]
       ELSE IF ~inRange
            THEN [ok |-> FALSE, neg |-> FALSE, mag |-> <<0>>, err |-> "value out of range"]
            ELSE [ok |-> TRUE, neg |-> neg /\ mag # <<0>>, mag |-> mag, err |-> "nil"]

Reverse(s) == [i \in 1..Len(s) |-> s[Len(s) + 1 - i]]

RECURSIVE SubLE(_, _, _)
\* a - b - borrow on least-significant-first digits, a >= b
SubLE(a, b, borrow) ==
    IF a = <<>> THEN <<>>
    ELSE LET bd == IF b = <<>> THEN 0 ELSE Head(b)
             d == Head(a) - bd - borrow
         IN <<IF d < 0 THEN d + 10 ELSE d>>
            \o SubLE(Tail(a), IF b = <<>> THEN <<>> ELSE Tail(b), IF d < 0 THEN 1 ELSE 0)

\* conversion of the parsed int64 to the uint64 CodeID field of WasmCode
Uint64(v) ==
    IF ~v.neg THEN v.mag
    ELSE StripZeros(Reverse(SubLE(Reverse(Pow64), Reverse(v.mag), 0)))

-----------------------------------------------------------------------------
(* base64.StdEncoding *)

Alphabet == <<
    "A", "B", "C", "D", "E", "F", "G", "H", "I", "J", "K", "L", "M", "N", "O", "P",
    "Q", "R", "S", "T", "U", "V", "W", "X", "Y", "Z", "a", "b", "c", "d", "e", "f",
    "g", "h", "i", "j", "k", "l", "m", "n", "o", "p", "q", "r", "s", "t", "u", "v",
    "w", "x", "y", "z", "0", "1", "2", "3", "4", "5", "6", "7", "8", "9", "+", "/" >>
PadChar == "="

InAlphabet(c) == \E k \in 1..Len(Alphabet) : Alphabet[k] = c
B64Val(c) == (CHOOSE k \in 1..Len(Alphabet) : Alphabet[k] = c) - 1
IsNewline(c) == c \in {"\n", "\r"}

\* the bytes of one quantum of n symbols (n in 2..4), missing symbols are 0;
\* bits beyond the last whole byte are dropped (non-strict decoding)
QuantumBytes(q, n) ==
    LET d(i) == IF i <= n THEN B64Val(q[i]) ELSE 0
        val == d(1) * 262144 + d(2) * 4096 + d(3) * 64 + d(4)
        b == <<val \div 65536, (val \div 256) % 256, val % 256>>
    IN SubSeq(b, 1, n - 1)

RECURSIVE DecodeQuanta(_)
\* src holds no line breaks
DecodeQuanta(src) ==
    IF src = <<>> THEN [ok |-> TRUE, bytes |-> <<>>]
    ELSE IF Len(src) < 4 \/ ~InAlphabet(src[1]) \/ ~InAlphabet(src[2])
         THEN [ok |-> FALSE, bytes |-> <<>>]
    ELSE IF InAlphabet(src[3]) /\ InAlphabet(src[4])
         THEN LET rest == DecodeQuanta(SubSeq(src, 5, Len(src)))
              IN [ok |-> rest.ok, bytes |-> QuantumBytes(src, 4) \o rest.bytes]
    ELSE IF InAlphabet(src[3]) /\ src[4] = PadChar /\ Len(src) = 4
         THEN [ok |-> TRUE, bytes |-> QuantumBytes(src, 3)]
    ELSE IF src[3] = PadChar /\ src[4] = PadChar /\ Len(src) = 4
         THEN [ok |-> TRUE, bytes |-> QuantumBytes(src, 2)]
    ELSE [ok |-> FALSE, bytes |-> <<>>]

\* base64.RawStdEncoding.DecodeString(s): the encoding without padding
DecodeString_Raw(s) ==
    LET src == SelectSeq(s, LAMBDA c : ~IsNewline(c))
        pad == IF Len(src) % 4 = 2 THEN <<PadChar, PadChar>>
               ELSE IF Len(src) % 4 = 3 THEN <<PadChar>> ELSE <<>>
        d == IF \E k \in 1..Len(src) : src[k] = PadChar
             THEN [ok |-> FALSE, bytes |-> <<>>]
             ELSE DecodeQuanta(src \o pad)
    IN [ok |-> d.ok, bytes |-> IF d.ok THEN d.bytes ELSE <<>>,
        err |-> IF d.ok THEN "nil" ELSE "illegal base64 data"]

\* base64.StdEncoding.DecodeString(s): '\r' and '\n' are ignored
DecodeString(s) ==
    LET d == DecodeQuanta(SelectSeq(s, LAMBDA c : ~IsNewline(c)))
    IN [ok |-> d.ok, bytes |-> IF d.ok THEN d.bytes ELSE <<>>,
        err |-> IF d.ok THEN "nil" ELSE "illegal base64 data"]

-----------------------------------------------------------------------------
(* time.Parse(time.RFC3339, s), layout "2006-01-02T15:04:05Z07:00" *)

\* the number written by the digits s[i..j]; -1 when one is no digit
RECURSIVE NumAt(_, _, _)
NumAt(s, i, j) ==
    IF i > j THEN 0
    ELSE IF j > Len(s) \/ ~IsDigit(s[j]) THEN -1
    ELSE LET hi == NumAt(s, i, j - 1)
         IN IF hi < 0 THEN -1 ELSE hi * 10 + DigitVal(s[j])

IsLeap(y) == y % 4 = 0 /\ (y % 100 # 0 \/ y % 400 = 0)
DaysIn(m, y) ==
    IF m = 2 THEN (IF IsLeap(y) THEN 29 ELSE 28)
    ELSE IF m \in {4, 6, 9, 11} THEN 30 ELSE 31

\* number of characters of the optional fractional second at s[20..]
FracLen(s) ==
    IF Len(s) >= 21 /\ s[20] \in {".", ","} /\ IsDigit(s[21])
    THEN 1 + Cardinality({k \in 21..Len(s) : \A j \in 21..k : IsDigit(s[j])})
    ELSE 0

ParseTime(s) ==
    LET year == NumAt(s, 1, 4)
        month == NumAt(s, 6, 7)
        day == NumAt(s, 9, 10)
        hour == NumAt(s, 12, 13)
        min == NumAt(s, 15, 16)
        sec == NumAt(s, 18, 19)
        z == 20 + FracLen(s)
        seps == /\ Len(s) >= 20
                /\ s[5] = "-" /\ s[8] = "-" /\ s[11] = "T"
                /\ s[14] = ":" /\ s[17] = ":"
        fields == /\ year >= 0 /\ month \in 1..12 /\ day >= 1
                  /\ day <= DaysIn(month, year)
                  /\ hour \in 0..23 /\ min \in 0..59 /\ sec \in 0..59
        utc == Len(s) = z /\ s[z] = "Z"
        zh == NumAt(s, z + 1, z + 2)
        zm == NumAt(s, z + 4, z + 5)
        offset == /\ Len(s) = z + 5 /\ s[z] \in {"+", "-"} /\ s[z + 3] = ":"
                  /\ zh \in 0..23 /\ zm \in 0..59
    IN IF seps /\ fields /\ (utc \/ offset)
       THEN [ok |-> TRUE, err |-> "nil",
             time |-> [Year |-> year, Month |-> month, Day |-> day,
                       Hour |-> hour, Min |-> min, Sec |-> sec,
                       Frac |-> SubSeq(s, 21, z - 1),
                       Offset |-> IF utc THEN 0
                                  ELSE (IF s[z] = "-" THEN -1 ELSE 1) * (zh * 60 + zm)]]
       ELSE [ok |-> FALSE, err |-> "cannot parse", time |-> [Year |-> 0]]

-----------------------------------------------------------------------------
(* package types: record constructors *)

\* wasmtypes.RawContractMessage.MarshalJSON: the bytes as they are, "null"
\* for an empty message
MarshalJSON(rawMsg) ==
    IF rawMsg = <<>> THEN <<"n", "u", "l", "l">> ELSE rawMsg

NewWasmCode(sender, wasmByteCode, initPermission, codeID, height) ==
    [Sender |-> sender,
     WasmByteCode |-> wasmByteCode,
     InstantiatePermission |-> initPermission,
     CodeID |-> codeID,
     Height |-> height]

\* creator and contract address, two strings, take each other's place
NewWasmContract_CreatorAsAddress(sender, admin, codeID, label, rawMsg, funds, contractAddress, data, instantiatedAt, creator, contractInfoExtension, height) ==
    [Sender |-> sender,
     Creator |-> contractAddress,
     Admin |-> admin,
     CodeID |-> codeID,
     Label |-> label,
     RawContractMsg |-> MarshalJSON(rawMsg),
     Funds |-> funds,
     ContractAddress |-> creator,
     Data |-> data,
     InstantiatedAt |-> instantiatedAt,
     ContractInfoExtension |-> contractInfoExtension,
     Height |-> height]

NewWasmContract(sender, admin, codeID, label, rawMsg, funds, contractAddress, data, instantiatedAt, creator, contractInfoExtension, height) ==
    [Sender |-> sender,
     Creator |-> creator,
     Admin |-> admin,
     CodeID |-> codeID,
     Label |-> label,
     RawContractMsg |-> MarshalJSON(rawMsg),
     Funds |-> funds,
     ContractAddress |-> contractAddress,
     Data |-> data,
     InstantiatedAt |-> instantiatedAt,
     ContractInfoExtension |-> contractInfoExtension,
     Height |-> height]

NewWasmExecuteContract(sender, contractAddress, rawMsg, funds, data, executedAt, height) ==
    [Sender |-> sender,
     ContractAddress |-> contractAddress,
     RawContractMsg |-> MarshalJSON(rawMsg),
     Funds |-> funds,
     Data |-> data,
     ExecutedAt |-> executedAt,
     Height |-> height]

-----------------------------------------------------------------------------
(* package wasm: the handlers.  Each yields the error it returns and the   *)
(* lookups and collaborator calls it made.  dbReply is what the database   *)
(* answers to the write, srcReply what the source answers to               *)
(* GetContractInfo.                                                        *)

\* a lookup or collaborator call: its name, its arguments and what it answered
Call(op, args, reply) == [op |-> op, args |-> args, reply |-> reply]
Return(err, made) == [result |-> err, calls |-> made]

HandleMsgStoreCode(i, t, m, dbReply) ==
    LET event == FindEventByType(t, i, EventTypeStoreCode)
        c1 == <<Call("FindEventByType", <<i, EventTypeStoreCode>>, event)>>
        codeIDKey == FindAttributeByKey(event.event, AttributeKeyCodeID)
        c2 == Append(c1, Call("FindAttributeByKey", <<event.event, AttributeKeyCodeID>>, codeIDKey))
        codeID == ParseInt(codeIDKey.value)
    IN IF ~event.ok
       THEN Return(Errorf("error while searching for EventTypeInstantiate", event.err), c1)
       ELSE IF ~codeIDKey.ok
       THEN Return(Errorf("error while searching for AttributeKeyContractAddr", codeIDKey.err), c2)
       ELSE IF ~codeID.ok
       THEN Return(Errorf("error while parsing code id to int64", codeID.err), c2)
       ELSE Return(dbReply,
                Append(c2, Call("SaveWasmCode",
                    <<NewWasmCode(m.Sender, m.WASMByteCode, m.InstantiatePermission,
                                  Uint64(codeID), t.Height)>>, dbReply)))

\* the contract info is fetched as soon as the address is known, before the
\* result data is looked up and decoded
HandleMsgInstantiateContract_ResolvesFirst(i, t, m, srcReply, dbReply) ==
    LET event == FindEventByType(t, i, EventTypeInstantiate)
        c1 == <<Call("FindEventByType", <<i, EventTypeInstantiate>>, event)>>
        contractAddress == FindAttributeByKey(event.event, AttributeKeyContractAddr)
        c2 == Append(c1, Call("FindAttributeByKey", <<event.event, AttributeKeyContractAddr>>, contractAddress))
        contractInfo == srcReply
        c3 == Append(c2, Call("GetContractInfo", <<t.Height, contractAddress.value>>, srcReply))
        resultData == FindAttributeByKey(event.event, AttributeKeyResultDataHex)
        c4 == Append(c3, Call("FindAttributeByKey", <<event.event, AttributeKeyResultDataHex>>, resultData))
        resultDataBz == DecodeString(resultData.value)
        timestamp == ParseTime(t.Timestamp)
    IN IF ~event.ok
       THEN Return(Errorf("error while searching for EventTypeInstantiate", event.err), c1)
       ELSE IF ~contractAddress.ok
       THEN Return(Errorf("error while searching for AttributeKeyContractAddr", contractAddress.err), c2)
       ELSE IF ~contractInfo.ok
       THEN Return(Errorf("error while getting proposal", contractInfo.err), c3)
       ELSE IF ~resultData.ok
       THEN Return(Errorf("error while searching for AttributeKeyResultDataHex", resultData.err), c4)
       ELSE IF ~resultDataBz.ok
       THEN Return(Errorf("error while decoding result data", resultDataBz.err), c4)
       ELSE IF ~timestamp.ok
       THEN Return(Errorf("error while parsing time", timestamp.err), c4)
       ELSE Return(dbReply,
                Append(c4, Call("SaveWasmContract",
                    <<NewWasmContract(m.Sender, m.Admin, m.CodeID, m.Label, m.Msg,
                                      m.Funds, contractAddress.value,
                                      resultDataBz.bytes, timestamp.time,
                                      contractInfo.Creator, contractInfo.Extension,
                                      t.Height)>>, dbReply)))

HandleMsgInstantiateContract(i, t, m, srcReply, dbReply) ==
    LET event == FindEventByType(t, i, EventTypeInstantiate)
        c1 == <<Call("FindEventByType", <<i, EventTypeInstantiate>>, event)>>
        contractAddress == FindAttributeByKey(event.event, AttributeKeyContractAddr)
        c2 == Append(c1, Call("FindAttributeByKey", <<event.event, AttributeKeyContractAddr>>, contractAddress))
        resultData == FindAttributeByKey(event.event, AttributeKeyResultDataHex)
        c3 == Append(c2, Call("FindAttributeByKey", <<event.event, AttributeKeyResultDataHex>>, resultData))
        resultDataBz == DecodeString(resultData.value)
        contractInfo == srcReply
        c4 == Append(c3, Call("GetContractInfo", <<t.Height, contractAddress.value>>, srcReply))
        timestamp == ParseTime(t.Timestamp)
    IN IF ~event.ok
       THEN Return(Errorf("error while searching for EventTypeInstantiate", event.err), c1)
       ELSE IF ~contractAddress.ok
       THEN Return(Errorf("error while searching for AttributeKeyContractAddr", contractAddress.err), c2)
       ELSE IF ~resultData.ok
       THEN Return(Errorf("error while searching for AttributeKeyResultDataHex", resultData.err), c3)
       ELSE IF ~resultDataBz.ok
       THEN Return(Errorf("error while decoding result data", resultDataBz.err), c3)
       ELSE IF ~contractInfo.ok
       THEN Return(Errorf("error while getting proposal", contractInfo.err), c4)
       ELSE IF ~timestamp.ok
       THEN Return(Errorf("error while parsing time", timestamp.err), c4)
       ELSE Return(dbReply,
                Append(c4, Call("SaveWasmContract",
                    <<NewWasmContract(m.Sender, m.Admin, m.CodeID, m.Label, m.Msg,
                                      m.Funds, contractAddress.value,
                                      resultDataBz.bytes, timestamp.time,
                                      contractInfo.Creator, contractInfo.Extension,
                                      t.Height)>>, dbReply)))

\* the error of DecodeString is dropped: resultDataBz, _ := DecodeString(...)
HandleMsgExecuteContract_IgnoresDecodeError(i, t, m, dbReply) ==
    LET event == FindEventByType(t, i, EventTypeExecute)
        c1 == <<Call("FindEventByType", <<i, EventTypeExecute>>, event)>>
        resultData == FindAttributeByKey(event.event, AttributeKeyResultDataHex)
        c2 == Append(c1, Call("FindAttributeByKey", <<event.event, AttributeKeyResultDataHex>>, resultData))
        resultDataBz == DecodeString(resultData.value)
        timestamp == ParseTime(t.Timestamp)
    IN IF ~event.ok
       THEN Return(Errorf("error while searching for EventTypeExecute", event.err), c1)
       ELSE IF ~resultData.ok
       THEN Return(Errorf("error while searching for AttributeKeyResultDataHex", resultData.err), c2)
       ELSE IF ~timestamp.ok
       THEN Return(Errorf("error while parsing time", timestamp.err), c2)
       ELSE Return(dbReply,
                Append(c2, Call("SaveWasmExecuteContract",
                    <<NewWasmExecuteContract(m.Sender, m.Contract, m.Msg, m.Funds,
                                             resultDataBz.bytes, timestamp.time,
                                             t.Height)>>, dbReply)))

HandleMsgExecuteContract(i, t, m, dbReply) ==
    LET event == FindEventByType(t, i, EventTypeExecute)
        c1 == <<Call("FindEventByType", <<i, EventTypeExecute>>, event)>>
        resultData == FindAttributeByKey(event.event, AttributeKeyResultDataHex)
        c2 == Append(c1, Call("FindAttributeByKey", <<event.event, AttributeKeyResultDataHex>>, resultData))
        resultDataBz == DecodeString(resultData.value)
        timestamp == ParseTime(t.Timestamp)
    IN IF ~event.ok
       THEN Return(Errorf("error while searching for EventTypeExecute", event.err), c1)
       ELSE IF ~resultData.ok
       THEN Return(Errorf("error while searching for AttributeKeyResultDataHex", resultData.err), c2)
       ELSE IF ~resultDataBz.ok
       THEN Return(Errorf("error while decoding result data", resultDataBz.err), c2)
       ELSE IF ~timestamp.ok
       THEN Return(Errorf("error while parsing time", timestamp.err), c2)
       ELSE Return(dbReply,
                Append(c2, Call("SaveWasmExecuteContract",
                    <<NewWasmExecuteContract(m.Sender, m.Contract, m.Msg, m.Funds,
                                             resultDataBz.bytes, timestamp.time,
                                             t.Height)>>, dbReply)))

\* the contract address is read from the migrate event when it holds one
HandleMsgMigrateContract_AddressFromEvent(i, t, m, dbReply) ==
    LET event == FindEventByType(t, i, EventTypeMigrate)
        c1 == <<Call("FindEventByType", <<i, EventTypeMigrate>>, event)>>
        resultData == FindAttributeByKey(event.event, AttributeKeyResultDataHex)
        c2 == Append(c1, Call("FindAttributeByKey", <<event.event, AttributeKeyResultDataHex>>, resultData))
        resultDataBz == DecodeString(resultData.value)
        contractAddress == FindAttributeByKey(event.event, AttributeKeyContractAddr)
    IN IF ~event.ok
       THEN Return(Errorf("error while searching for EventTypeMigrate", event.err), c1)
       ELSE IF ~resultData.ok
       THEN Return(Errorf("error while searching for AttributeKeyResultDataHex", resultData.err), c2)
       ELSE IF ~resultDataBz.ok
       THEN Return(Errorf("error while decoding result data", resultDataBz.err), c2)
       ELSE Return(dbReply,
                Append(c2, Call("UpdateContractWithMsgMigrateContract",
                    <<m.Sender,
                      IF contractAddress.ok THEN contractAddress.value ELSE m.Contract,
                      m.CodeID, m.Msg, resultDataBz.bytes>>,
                    dbReply)))

HandleMsgMigrateContract(i, t, m, dbReply) ==
    LET event == FindEventByType(t, i, EventTypeMigrate)
        c1 == <<Call("FindEventByType", <<i, EventTypeMigrate>>, event)>>
        resultData == FindAttributeByKey(event.event, AttributeKeyResultDataHex)
        c2 == Append(c1, Call("FindAttributeByKey", <<event.event, AttributeKeyResultDataHex>>, resultData))
        resultDataBz == DecodeString(resultData.value)
    IN IF ~event.ok
       THEN Return(Errorf("error while searching for EventTypeMigrate", event.err), c1)
       ELSE IF ~resultData.ok
       THEN Return(Errorf("error while searching for AttributeKeyResultDataHex", resultData.err), c2)
       ELSE IF ~resultDataBz.ok
       THEN Return(Errorf("error while decoding result data", resultDataBz.err), c2)
       ELSE Return(dbReply,
                Append(c2, Call("UpdateContractWithMsgMigrateContract",
                    <<m.Sender, m.Contract, m.CodeID, m.Msg, resultDataBz.bytes>>,
                    dbReply)))

\* the arguments in the field order of MsgUpdateAdmin (sender, new admin, contract)
HandleMsgUpdateAdmin_Swapped(m, dbReply) ==
    Return(dbReply,
        <<Call("UpdateContractAdmin", <<m.Sender, m.NewAdmin, m.Contract>>, dbReply)>>)

HandleMsgUpdateAdmin(m, dbReply) ==
    Return(dbReply,
        <<Call("UpdateContractAdmin", <<m.Sender, m.Contract, m.NewAdmin>>, dbReply)>>)

HandleMsgClearAdmin(m, dbReply) ==
    Return(dbReply,
        <<Call("UpdateContractAdmin", <<m.Sender, m.Contract, <<>> >>, dbReply)>>)

-----------------------------------------------------------------------------
(* Inputs: the messages and transactions HandleMsg is run on *)

KindStoreCode == "MsgStoreCode"
KindInstantiate == "MsgInstantiateContract"
KindExecute == "MsgExecuteContract"
KindMigrate == "MsgMigrateContract"
KindUpdateAdmin == "MsgUpdateAdmin"
KindClearAdmin == "MsgClearAdmin"
\* a message of another module, no case of the type switch
KindOther == "MsgSend"

WasmKinds == {KindStoreCode, KindInstantiate, KindExecute, KindMigrate,
              KindUpdateAdmin, KindClearAdmin}
EventKinds == {KindStoreCode, KindInstantiate, KindExecute, KindMigrate}
Kinds == WasmKinds \cup {KindOther}

Sender1 == <<"s", "1">>
Sender2 == <<"s", "2">>
Contract1 == <<"c", "1">>
Contract2 == <<"c", "2">>
Admin1 == <<"a", "d">>
LogAddr1 == <<"w", "1">>
LogAddr2 == <<"w", "2">>
LogAddr3 == <<"w", "3">>
Creator1 == <<"c", "r">>
Payload1 == <<"{", "}">>

Messages(kind) ==
    CASE kind = KindStoreCode ->
           {[Kind |-> kind, Sender |-> Sender1, WASMByteCode |-> <<0, 97, 115, 109>>,
             InstantiatePermission |-> "Everybody"]}
      [] kind = KindInstantiate ->
           {[Kind |-> kind, Sender |-> Sender1, Admin |-> Admin1, CodeID |-> <<7>>,
             Label |-> <<"l">>, Msg |-> Payload1, Funds |-> <<>>]}
      [] kind = KindExecute ->
           {[Kind |-> kind, Sender |-> Sender1, Contract |-> Contract1,
             Msg |-> Payload1, Funds |-> <<>>]}
      [] kind = KindMigrate ->
           {[Kind |-> kind, Sender |-> Sender2, Contract |-> Contract2,
             CodeID |-> <<8>>, Msg |-> Payload1]}
      [] kind = KindUpdateAdmin ->
           {[Kind |-> kind, Sender |-> Sender1, NewAdmin |-> Admin1,
             Contract |-> Contract1],
            [Kind |-> kind, Sender |-> Sender2, NewAdmin |-> Sender2,
             Contract |-> Contract2]}
      [] kind = KindClearAdmin ->
           {[Kind |-> kind, Sender |-> Sender1, Contract |-> Contract1],
            [Kind |-> kind, Sender |-> Sender2, Contract |-> Contract2]}
      [] OTHER ->
           {[Kind |-> KindOther, FromAddress |-> Sender1, ToAddress |-> Sender2]}

\* the event type the handler of a message kind looks for
Sought(kind) ==
    CASE kind = KindStoreCode -> EventTypeStoreCode
      [] kind = KindExecute -> EventTypeExecute
      [] kind = KindMigrate -> EventTypeMigrate
      [] OTHER -> EventTypeInstantiate

\* another event type the same transaction may hold
Foreign(kind) ==
    IF kind = KindStoreCode THEN EventTypeInstantiate ELSE EventTypeStoreCode

Attr(key, value) == [Key |-> key, Value |-> value]

CodeID42 == <<"4", "2">>
CodeIDPlus == <<"+", "7">>
CodeIDNeg == <<"-", "1">>
CodeID2p63 == <<"9", "2", "2", "3", "3", "7", "2", "0", "3", "6", "8", "5", "4", "7", "7", "5", "8", "0", "8">>
CodeIDBad == <<"a", "b", "c">>
\* "AB", "A" and no base64 at all
ResultAB == <<"Q", "U", "I", "=">>
ResultA == <<"Q", "Q", "=", "=">>
ResultBad == <<"%", "%", "%">>

\* attributes the events of a transaction are made of
AttrPool(kind) ==
    CASE kind = KindStoreCode ->
           {Attr(AttributeKeyCodeID, v) :
              v \in {CodeID42, CodeIDPlus, CodeIDNeg, CodeID2p63, CodeIDBad}}
      [] kind \in {KindExecute, KindMigrate} ->
           {Attr(AttributeKeyResultDataHex, v) : v \in {ResultAB, ResultBad}}
           \cup {Attr(AttributeKeyContractAddr, LogAddr1)}
      [] kind = KindInstantiate ->
           {Attr(AttributeKeyContractAddr, v) : v \in {LogAddr1, LogAddr2}}
           \cup {Attr(AttributeKeyResultDataHex, v) : v \in {ResultAB, ResultBad}}
      [] OTHER ->
           {Attr(AttributeKeyContractAddr, LogAddr1),
            Attr(AttributeKeyResultDataHex, ResultAB)}

\* everything a handler reads, under the keys it reads it
AllAttrs ==
    <<Attr(AttributeKeyCodeID, <<"9">>),
      Attr(AttributeKeyContractAddr, LogAddr3),
      Attr(AttributeKeyResultDataHex, ResultA)>>

\* events of at most n attributes: of the sought type with any attributes of
\* the pool, of the foreign type without attributes or with all of AllAttrs
EventPool(kind, n) ==
    {[Type |-> Sought(kind), Attributes |-> a] : a \in SeqsUpTo(AttrPool(kind), n)}
    \cup {[Type |-> Foreign(kind), Attributes |-> <<>>]}
    \cup (IF n >= Len(AllAttrs)
          THEN {[Type |-> Foreign(kind), Attributes |-> AllAttrs]}
          ELSE {})

RECURSIVE EventSeqs(_, _, _)
\* sequences of at most n events holding at most a attributes in all
EventSeqs(kind, n, a) ==
    {<<>>} \cup
    (IF n = 0 THEN {}
     ELSE UNION {{<<e>> \o rest :
                    rest \in EventSeqs(kind, n - 1, a - Len(e.Attributes))} :
                 e \in EventPool(kind, a)})

\* the log of another message of the same transaction: it holds what the
\* handler looks for, with values of its own
OtherLog(kind) ==
    [Events |-> <<[Type |-> Sought(kind), Attributes |-> AllAttrs]>>]

\* "2022-05-01T10:00:00Z" and a timestamp that is not RFC 3339
GoodTime == <<"2", "0", "2", "2", "-", "0", "5", "-", "0", "1", "T", "1", "0", ":", "0", "0", ":", "0", "0", "Z">>
BadTime == <<"2", "0", "2", "2", "-", "0", "5", "-", "0", "1", " ", "1", "0", ":", "0", "0", ":", "0", "0">>
Timestamps == {GoodTime, BadTime}
Heights == {100}

\* the log lists and the index of the handled message: a failed transaction
\* has no logs, a successful one has one log for each message
Placements(log, other) ==
    {[Logs |-> <<>>, index |-> 0], [Logs |-> <<>>, index |-> 1],
     [Logs |-> <<log>>, index |-> 0],
     [Logs |-> <<log, other>>, index |-> 0],
     [Logs |-> <<other, log>>, index |-> 1]}

\* what the collaborators may answer
DbError == Errorf("db", "write failed")
DbReplies == {Nil, DbError}
SourceReplies ==
    {[ok |-> TRUE, Creator |-> Creator1, Extension |-> <<"x">>, err |-> "nil"],
     [ok |-> FALSE, Creator |-> <<>>, Extension |-> <<>>, err |-> "not found"]}

-----------------------------------------------------------------------------
(* HandleMsg *)

Init ==
    /\ \E kind \in Kinds :
         \E es \in EventSeqs(kind, MaxEvents, MaxAttrs) :
           \E p \in Placements([Events |-> es], OtherLog(kind)) :
             /\ index = p.index
             /\ msg \in Messages(kind)
             /\ tx \in {[Logs |-> p.Logs, Height |-> h, Timestamp |-> ts] :
                          h \in Heights, ts \in Timestamps}
    /\ pc = "ready"
    /\ result = Nil
    /\ calls = <<>>

Returned(r) ==
    /\ pc' = "done"
    /\ result' = r.result
    /\ calls' = r.calls
    /\ UNCHANGED <<index, msg, tx>>

\* the admin messages, which read no log, dispatched before the log check
HandleMsg_NoLogs_AdminFirst ==
    /\ pc = "ready"
    /\ Len(tx.Logs) = 0
    /\ \E dbReply \in DbReplies :
         Returned(IF msg.Kind = KindUpdateAdmin THEN HandleMsgUpdateAdmin(msg, dbReply)
                  ELSE IF msg.Kind = KindClearAdmin THEN HandleMsgClearAdmin(msg, dbReply)
                  ELSE Return(Nil, <<>>))

HandleMsg_NoLogs ==
    /\ pc = "ready"
    /\ Len(tx.Logs) = 0
    /\ Returned(Return(Nil, <<>>))

HandleMsg_StoreCode ==
    /\ pc = "ready"
    /\ Len(tx.Logs) # 0
    /\ msg.Kind = KindStoreCode
    /\ \E dbReply \in DbReplies :
         Returned(HandleMsgStoreCode(index, tx, msg, dbReply))

HandleMsg_InstantiateContract ==
    /\ pc = "ready"
    /\ Len(tx.Logs) # 0
    /\ msg.Kind = KindInstantiate
    /\ \E srcReply \in SourceReplies, dbReply \in DbReplies :
         Returned(HandleMsgInstantiateContract(index, tx, msg, srcReply, dbReply))

HandleMsg_ExecuteContract ==
    /\ pc = "ready"
    /\ Len(tx.Logs) # 0
    /\ msg.Kind = KindExecute
    /\ \E dbReply \in DbReplies :
         Returned(HandleMsgExecuteContract(index, tx, msg, dbReply))

HandleMsg_MigrateContract ==
    /\ pc = "ready"
    /\ Len(tx.Logs) # 0
    /\ msg.Kind = KindMigrate
    /\ \E dbReply \in DbReplies :
         Returned(HandleMsgMigrateContract(index, tx, msg, dbReply))

HandleMsg_UpdateAdmin ==
    /\ pc = "ready"
    /\ Len(tx.Logs) # 0
    /\ msg.Kind = KindUpdateAdmin
    /\ \E dbReply \in DbReplies :
         Returned(HandleMsgUpdateAdmin(msg, dbReply))

HandleMsg_ClearAdmin ==
    /\ pc = "ready"
    /\ Len(tx.Logs) # 0
    /\ msg.Kind = KindClearAdmin
    /\ \E dbReply \in DbReplies :
         Returned(HandleMsgClearAdmin(msg, dbReply))

\* a default case that rejects the message
HandleMsg_Unrecognized_Rejects ==
    /\ pc = "ready"
    /\ Len(tx.Logs) # 0
    /\ msg.Kind \notin WasmKinds
    /\ Returned(Return(Errorf("unsupported message", msg.Kind), <<>>))

HandleMsg_Unrecognized ==
    /\ pc = "ready"
    /\ Len(tx.Logs) # 0
    /\ msg.Kind \notin WasmKinds
    /\ Returned(Return(Nil, <<>>))

Next ==
    \/ HandleMsg_NoLogs
    \/ HandleMsg_StoreCode
    \/ HandleMsg_InstantiateContract
    \/ HandleMsg_ExecuteContract
    \/ HandleMsg_MigrateContract
    \/ HandleMsg_UpdateAdmin
    \/ HandleMsg_ClearAdmin
    \/ HandleMsg_Unrecognized

Spec == Init /\ [][Next]_vars

-----------------------------------------------------------------------------
(* Instantiate, execute and migrate messages on generated result-data       *)
(* attributes                                                              *)

B64Chars == {"Q", "R", "I", "=", "\n", "%"}
\* one whole quantum, "ABC", that may precede the generated characters
Quantum == <<"Q", "U", "J", "D">>

ResultStrings == {pre \o tail : pre \in {<<>>, Quantum}, tail \in SeqsUpTo(B64Chars, MaxLen)}

InitB64 ==
    /\ \E kind \in {KindInstantiate, KindExecute, KindMigrate} :
         \E s \in ResultStrings :
           /\ msg \in Messages(kind)
           /\ tx = [Logs |-> <<[Events |-> <<[Type |-> Sought(kind),
                                  Attributes |-> <<Attr(AttributeKeyContractAddr, LogAddr1),
                                                   Attr(AttributeKeyResultDataHex, s)>>]>>]>>,
                    Height |-> 100, Timestamp |-> GoodTime]
    /\ index = 0
    /\ pc = "ready"
    /\ result = Nil
    /\ calls = <<>>

NextB64 ==
    \/ HandleMsg_InstantiateContract
    \/ HandleMsg_ExecuteContract
    \/ HandleMsg_MigrateContract

SpecBase64 == InitB64 /\ [][NextB64]_vars

-----------------------------------------------------------------------------
(* Reading the trace of a finished run *)

Done == pc = "done"
HasLogs == Len(tx.Logs) # 0

PersistOps == {"SaveWasmCode", "SaveWasmContract", "SaveWasmExecuteContract",
               "UpdateContractWithMsgMigrateContract", "UpdateContractAdmin"}
SaveOps == {"SaveWasmCode", "SaveWasmContract", "SaveWasmExecuteContract"}
LookupOps == {"FindEventByType", "FindAttributeByKey"}

CallsOf(ops) == {k \in 1..Len(calls) : calls[k].op \in ops}
Count(ops) == Cardinality(CallsOf(ops))
\* the only call of op, when Count({op}) = 1
TheCall(op) == calls[CHOOSE k \in 1..Len(calls) : calls[k].op = op]

\* the events of the log of the handled message
EventsAtIndex == tx.Logs[index + 1].Events

-----------------------------------------------------------------------------
(* Claims *)

\* C1 (as stated): a transaction without any event, be its log list empty or
\* made of logs without events, makes HandleMsg return nil without a write
\* and without a GetContractInfo call.
C1_ZeroEventsNoOp ==
    (Done /\ \A k \in 1..Len(tx.Logs) : tx.Logs[k].Events = <<>>)
        => /\ result = Nil
           /\ Count(PersistOps \cup {"GetContractInfo"}) = 0

\* C1 (amended): on a transaction whose log list is empty HandleMsg returns
\* nil, for every message kind, and makes no call at all.
C1_EmptyLogsNoOp ==
    (Done /\ ~HasLogs) => (result = Nil /\ calls = <<>>)

C1_Witness ==
    Done /\ ~HasLogs /\ msg.Kind = KindClearAdmin

\* C2: a message that is no case of the type switch makes HandleMsg return
\* nil without any lookup, resolver call or write, whatever the transaction.
C2_UnrecognizedNoOp ==
    (Done /\ msg.Kind \notin WasmKinds) => (result = Nil /\ calls = <<>>)

C2_Witness ==
    /\ Done /\ msg.Kind = KindOther /\ HasLogs
    /\ \E k \in 1..Len(EventsAtIndex) : EventsAtIndex[k].Type = EventTypeInstantiate

\* C7: on a transaction with logs, MsgUpdateAdmin makes exactly the call
\* UpdateContractAdmin(sender, contract, new admin) and MsgClearAdmin exactly
\* the call UpdateContractAdmin(sender, contract, ""); nothing is looked up,
\* and HandleMsg returns what the database answered.
C7_AdminUpdates ==
    (Done /\ HasLogs /\ msg.Kind \in {KindUpdateAdmin, KindClearAdmin})
        => /\ Len(calls) = 1
           /\ calls[1].op = "UpdateContractAdmin"
           /\ calls[1].args =
                <<msg.Sender, msg.Contract,
                  IF msg.Kind = KindUpdateAdmin THEN msg.NewAdmin ELSE <<>> >>
           /\ result = calls[1].reply

C7_Witness ==
    /\ Done /\ HasLogs /\ msg.Kind = KindUpdateAdmin
    /\ msg.NewAdmin # msg.Sender /\ msg.NewAdmin # msg.Contract
    /\ \E k \in 1..Len(EventsAtIndex) : EventsAtIndex[k].Attributes # <<>>
    /\ result = DbError

\* what the handler of the message finds in the log of the message
SoughtEvent == FindEventByType(tx, index, Sought(msg.Kind))
AttrOf(key) == FindAttributeByKey(SoughtEvent.event, key)
FoundAttr(key) == SoughtEvent.ok /\ AttrOf(key).ok

\* a decimal integer below 1<<64, with or without a sign
Unsigned(s) == IF s # <<>> /\ Head(s) \in {"+", "-"} THEN Tail(s) ELSE s
DecimalMag(s) == StripZeros([k \in 1..Len(Unsigned(s)) |-> DigitVal(Unsigned(s)[k])])
IsDecimal(s) ==
    /\ Unsigned(s) # <<>>
    /\ \A k \in 1..Len(Unsigned(s)) : IsDigit(Unsigned(s)[k])
    /\ MagLess(DecimalMag(s), Pow64)
IsNegative(s) == Head(s) = "-" /\ DecimalMag(s) # <<0>>

\* C3 (as stated): a MsgStoreCode whose store_code event holds a code_id
\* that is a decimal integer an unsigned 64-bit field can hold (0 up to
\* 1<<64 - 1, written with or without a sign) is saved exactly once with
\* that very code id and the height of the transaction; a code_id that is
\* no decimal integer is an error and nothing is saved.
C3_CodeIDExact ==
    (Done /\ HasLogs /\ msg.Kind = KindStoreCode /\ FoundAttr(AttributeKeyCodeID))
        => IF IsDecimal(AttrOf(AttributeKeyCodeID).value)
           THEN IsNegative(AttrOf(AttributeKeyCodeID).value)
                \/ /\ Count({"SaveWasmCode"}) = 1
                   /\ TheCall("SaveWasmCode").args[1].CodeID
                        = DecimalMag(AttrOf(AttributeKeyCodeID).value)
                   /\ TheCall("SaveWasmCode").args[1].Height = tx.Height
           ELSE result # Nil /\ Count({"SaveWasmCode"}) = 0

\* C4: the ContractRecord an instantiate message saves carries the value of
\* the _contract_address attribute of the instantiate event found in the log
\* of the message, the very address GetContractInfo was asked about.
C4_AddressFromLog ==
    (Done /\ msg.Kind = KindInstantiate /\ Count({"SaveWasmContract"}) > 0)
        => /\ Count({"SaveWasmContract"}) = 1
           /\ FoundAttr(AttributeKeyContractAddr)
           /\ TheCall("SaveWasmContract").args[1].ContractAddress
                = AttrOf(AttributeKeyContractAddr).value
           /\ Count({"GetContractInfo"}) = 1
           /\ TheCall("GetContractInfo").args[2]
                = TheCall("SaveWasmContract").args[1].ContractAddress

C4_Witness ==
    /\ Done /\ msg.Kind = KindInstantiate /\ Count({"SaveWasmContract"}) = 1
    /\ TheCall("SaveWasmContract").args[1].ContractAddress = LogAddr2
    /\ \E k \in 1..Len(SoughtEvent.event.Attributes) :
         SoughtEvent.event.Attributes[k] = Attr(AttributeKeyContractAddr, LogAddr1)

\* a stage of the extraction of the message fails
StageFails ==
    \/ ~SoughtEvent.ok
    \/ /\ msg.Kind = KindStoreCode
       /\ \/ ~AttrOf(AttributeKeyCodeID).ok
          \/ ~ParseInt(AttrOf(AttributeKeyCodeID).value).ok
    \/ /\ msg.Kind = KindInstantiate
       /\ \/ ~AttrOf(AttributeKeyContractAddr).ok
          \/ \E k \in CallsOf({"GetContractInfo"}) : ~calls[k].reply.ok
    \/ /\ msg.Kind \in {KindInstantiate, KindExecute, KindMigrate}
       /\ \/ ~AttrOf(AttributeKeyResultDataHex).ok
          \/ ~DecodeString(AttrOf(AttributeKeyResultDataHex).value).ok
    \/ /\ msg.Kind \in {KindInstantiate, KindExecute}
       /\ ~ParseTime(tx.Timestamp).ok

\* C5: when a stage of the extraction of a store-code, instantiate, execute
\* or migrate message fails (event or attribute missing, result data no
\* base64, code id not parsable, GetContractInfo failing, timestamp
\* malformed), HandleMsg returns an error and nothing is written.
C5_FailureAtomicity ==
    (Done /\ HasLogs /\ msg.Kind \in EventKinds /\ StageFails)
        => (result # Nil /\ Count(PersistOps) = 0)

C5_Witness ==
    /\ Done /\ HasLogs /\ msg.Kind = KindExecute
    /\ FoundAttr(AttributeKeyResultDataHex)
    /\ AttrOf(AttributeKeyResultDataHex).value = ResultBad
    /\ result.stage = "error while decoding result data"

\* the annotation that names a lookup or call
StageName(call) ==
    CASE call.op = "FindEventByType" ->
           (CASE call.args[2] = EventTypeStoreCode -> "error while searching for EventTypeStoreCode"
              [] call.args[2] = EventTypeInstantiate -> "error while searching for EventTypeInstantiate"
              [] call.args[2] = EventTypeExecute -> "error while searching for EventTypeExecute"
              [] call.args[2] = EventTypeMigrate -> "error while searching for EventTypeMigrate")
      [] call.op = "FindAttributeByKey" ->
           (CASE call.args[2] = AttributeKeyCodeID -> "error while searching for AttributeKeyCodeID"
              [] call.args[2] = AttributeKeyContractAddr -> "error while searching for AttributeKeyContractAddr"
              [] call.args[2] = AttributeKeyResultDataHex -> "error while searching for AttributeKeyResultDataHex")
      [] call.op = "GetContractInfo" -> "error while getting contract info"

\* C6 (as stated): when a lookup or the GetContractInfo call fails, the error
\* HandleMsg returns is annotated with the name of that very event,
\* attribute or call.
C6_AnnotationNamesStage ==
    (/\ Done /\ calls # <<>>
     /\ calls[Len(calls)].op \in LookupOps \cup {"GetContractInfo"}
     /\ ~calls[Len(calls)].reply.ok)
        => result.stage = StageName(calls[Len(calls)])

\* C9 (as stated): every run of the instantiate handler on a transaction
\* with logs, failing or not, calls GetContractInfo exactly once, with the
\* height and the address of the log; no other handler calls it.
C9_ResolverOncePerRun ==
    (Done /\ HasLogs)
        => IF msg.Kind = KindInstantiate
           THEN /\ Count({"GetContractInfo"}) = 1
                /\ TheCall("GetContractInfo").args
                     = <<tx.Height, AttrOf(AttributeKeyContractAddr).value>>
           ELSE Count({"GetContractInfo"}) = 0

\* C9 (amended): the instantiate handler calls GetContractInfo exactly once,
\* with the height and the address of the log and after the lookup of that
\* address succeeded, in the runs where the instantiate event, its
\* _contract_address and its result attribute are found and the result is
\* base64, whatever happens later; in every other run, and in every other
\* handler, GetContractInfo is not called.
C9_ResolverOnceAfterDecode ==
    Done =>
        IF /\ msg.Kind = KindInstantiate /\ HasLogs
           /\ FoundAttr(AttributeKeyContractAddr)
           /\ FoundAttr(AttributeKeyResultDataHex)
           /\ DecodeString(AttrOf(AttributeKeyResultDataHex).value).ok
        THEN /\ Count({"GetContractInfo"}) = 1
             /\ TheCall("GetContractInfo").args
                  = <<tx.Height, AttrOf(AttributeKeyContractAddr).value>>
             /\ \E k \in CallsOf({"GetContractInfo"}) :
                  \E j \in 1..(k - 1) :
                    /\ calls[j].op = "FindAttributeByKey"
                    /\ calls[j].args[2] = AttributeKeyContractAddr
                    /\ calls[j].reply.ok
        ELSE Count({"GetContractInfo"}) = 0

C9_Witness ==
    /\ Done /\ msg.Kind = KindInstantiate
    /\ Count({"GetContractInfo"}) = 1
    /\ TheCall("GetContractInfo").reply.ok
    /\ result.stage = "error while parsing time"

\* C10: a migrate message whose migrate event holds a base64 result
\* attribute makes exactly one write, UpdateContractWithMsgMigrateContract
\* with the sender, contract, code id and payload of the message and the
\* decoded result of the event; GetContractInfo and the Save operations are
\* not called.
C10_MigrateFromMessage ==
    (/\ Done /\ HasLogs /\ msg.Kind = KindMigrate
     /\ FoundAttr(AttributeKeyResultDataHex)
     /\ DecodeString(AttrOf(AttributeKeyResultDataHex).value).ok)
        => /\ Count(PersistOps) = 1
           /\ Count({"UpdateContractWithMsgMigrateContract"}) = 1
           /\ TheCall("UpdateContractWithMsgMigrateContract").args
                = <<msg.Sender, msg.Contract, msg.CodeID, msg.Msg,
                    DecodeString(AttrOf(AttributeKeyResultDataHex).value).bytes>>
           /\ Count(SaveOps \cup {"GetContractInfo"}) = 0

C10_Witness ==
    /\ Done /\ msg.Kind = KindMigrate
    /\ Count({"UpdateContractWithMsgMigrateContract"}) = 1
    /\ TheCall("UpdateContractWithMsgMigrateContract").args[5] = <<65, 66>>
    /\ AttrOf(AttributeKeyContractAddr).ok
    /\ tx.Timestamp = BadTime

RECURSIVE EncodeToString(_)
\* the standard base64 encoding of bytes, with padding: the re-encoding C8
\* speaks of
EncodeToString(b) ==
    IF b = <<>> THEN <<>>
    ELSE LET n == IF Len(b) >= 3 THEN 3 ELSE Len(b)
             v(i) == IF i <= n THEN b[i] ELSE 0
             val == v(1) * 65536 + v(2) * 256 + v(3)
             sym(k) == Alphabet[k + 1]
             q == << sym(val \div 262144), sym((val \div 4096) % 64),
                     IF n >= 2 THEN sym((val \div 64) % 64) ELSE PadChar,
                     IF n >= 3 THEN sym(val % 64) ELSE PadChar >>
         IN q \o EncodeToString(SubSeq(b, n + 1, Len(b)))

\* the result data a run wrote
StoredData ==
    IF msg.Kind = KindMigrate
    THEN TheCall("UpdateContractWithMsgMigrateContract").args[5]
    ELSE IF msg.Kind = KindInstantiate
         THEN TheCall("SaveWasmContract").args[1].Data
         ELSE TheCall("SaveWasmExecuteContract").args[1].Data

\* the result attribute without its line breaks
ResultSymbols == SelectSeq(AttrOf(AttributeKeyResultDataHex).value, LAMBDA c : ~IsNewline(c))

\* the bits of symbol k of the result attribute that belong to no byte
UnusedBits(k) ==
    IF k + 2 = Len(ResultSymbols) /\ ResultSymbols[k + 1] = PadChar
    THEN B64Val(ResultSymbols[k]) % 16
    ELSE IF k + 1 = Len(ResultSymbols) /\ ResultSymbols[k + 1] = PadChar
         THEN B64Val(ResultSymbols[k]) % 4
         ELSE 0

\* C8 (as stated): the result data a handler stores, encoded again with
\* standard base64, is the result attribute it was decoded from.
C8_RoundTrip ==
    (Done /\ Count(PersistOps) = 1)
        => EncodeToString(StoredData) = AttrOf(AttributeKeyResultDataHex).value

\* C8 (amended): the stored result data, encoded again, is the result
\* attribute without its line breaks and with the unused bits of its last
\* symbol cleared; it is the attribute itself exactly when the attribute
\* has no line break and those bits are zero.
C8_CanonicalRoundTrip ==
    (Done /\ Count(PersistOps) = 1)
        => LET enc == EncodeToString(StoredData)
               s == AttrOf(AttributeKeyResultDataHex).value
           IN /\ Len(enc) = Len(ResultSymbols)
              /\ \A k \in 1..Len(enc) :
                   IF ResultSymbols[k] = PadChar THEN enc[k] = PadChar
                   ELSE /\ enc[k] # PadChar
                        /\ B64Val(enc[k]) = B64Val(ResultSymbols[k]) - UnusedBits(k)
              /\ (enc = s) <=>
                   /\ \A k \in 1..Len(s) : ~IsNewline(s[k])
                   /\ \A k \in 1..Len(ResultSymbols) :
                        ResultSymbols[k] # PadChar => UnusedBits(k) = 0

C8_Witness ==
    /\ Done /\ Count(PersistOps) = 1 /\ msg.Kind = KindExecute
    /\ StoredData = <<65>>
    /\ \E k \in 1..Len(ResultSymbols) :
         ResultSymbols[k] # PadChar /\ UnusedBits(k) # 0

=============================================================================
